---- MODULE Spec2Model ----
(***************************************************************************)
(* mtop: the memory normalisation of collectMemoryStats (system.go) and    *)
(* the interactive state machine model.Update (bubbletea model).           *)
(*                                                                         *)
(* Durations are in milliseconds.  uint64 arithmetic is kept modular, with *)
(* a word of WordBits bits.  A float64 is a record: class "finite" with    *)
(* the integer part of the value, or class "NaN" / "+Inf".                 *)
(***************************************************************************)
EXTENDS Integers, Sequences, FiniteSets, TLC

VARIABLES
    m,            \* the model value threaded through Update
    cmd,          \* the command last returned by Init or Update
    armed,        \* number of tea.Tick commands in flight
    quitPending,  \* a tea.Quit command is in flight
    running,      \* the event loop of p.Run() has not returned
    now,          \* logical clock: number of timer firings so far
    lastMsg,      \* the message last taken by the event loop, with the
                  \* result of the collection it triggered
    raw,          \* input of one collectMemoryStats call
    memStats,     \* result of that call
    memDone,      \* that call has returned
    jsonRun,      \* main() in JSON mode: position, calls made, output, status
    collectErr    \* error of the session's latest collectSystemStats call

vars ==
    <<m, cmd, armed, quitPending, running, now, lastMsg, raw, memStats,
      memDone, jsonRun, collectErr>>

-----------------------------------------------------------------------------
(* Bounds of the model *)

WordBits == 24
MaxCount == 1
MaxPhysPages == 4
MaxClock == 2

-----------------------------------------------------------------------------
(* uint64 and float64 *)

RECURSIVE Pow2(_)
Pow2(n) == IF n = 0 THEN 1 ELSE 2 * Pow2(n - 1)

Word == Pow2(WordBits)

AddU(a, b) == (a + b) % Word
SubU(a, b) == (a - b) % Word

RECURSIVE MulU(_, _)
MulU(a, b) ==
    IF b = 0 THEN 0
    ELSE LET h == MulU(a, b \div 2)
         IN  (h + h + (IF b % 2 = 1 THEN a ELSE 0)) % Word

Finite(n) == [class |-> "finite", int |-> n]
NaN == [class |-> "NaN", int |-> 0]
PosInf == [class |-> "+Inf", int |-> 0]

\* float64(a) / float64(b) * 100 for unsigned a, b
PercentOf(a, b) ==
    IF b = 0
    THEN IF a = 0 THEN NaN ELSE PosInf
    ELSE Finite((a \div b) * 100 + ((a % b) * 100) \div b)

-----------------------------------------------------------------------------
(* system.go *)

DefaultPageSize == 4096
PageSizes == {DefaultPageSize, 16384}

ErrNil == ""

SwapStatsZero == [Total |-> 0, Used |-> 0, Usage |-> Finite(0)]
MemoryStatsZero ==
    [Total |-> 0, Used |-> 0, Available |-> 0, Usage |-> Finite(0),
     Swap |-> SwapStatsZero]
CPUStatsZero ==
    [Usage |-> Finite(0), Cores |-> <<>>, LoadAvg |-> <<0, 0, 0>>,
     Temp |-> Finite(0)]
GPUStatsZero ==
    [Usage |-> Finite(0), MemoryUsage |-> Finite(0), MemoryUsed |-> 0,
     MemoryTotal |-> 0, Temp |-> Finite(0)]
SystemStatsZero ==
    [CPU |-> CPUStatsZero, Memory |-> MemoryStatsZero, GPU |-> GPUStatsZero,
     Uptime |-> 0]

collectSwapStats == SwapStatsZero

totalPagesOf(r) == r.physmem \div r.pageSize

\* the external pages are not subtracted
usedPagesRawMutNoExternal(r) ==
    SubU(AddU(AddU(AddU(AddU(AddU(0, r.ActiveCount), r.InactiveCount),
                        r.WireCount), r.SpeculativeCount),
              r.CompressorPageCount),
         r.PurgeableCount)

\* usedPages as computed at lines 101-108
usedPagesRaw(r) ==
    SubU(SubU(AddU(AddU(AddU(AddU(AddU(0, r.ActiveCount), r.InactiveCount),
                             r.WireCount), r.SpeculativeCount),
                   r.CompressorPageCount),
              r.PurgeableCount),
         r.ExternalPageCount)

\* usedPages after the safeguard of lines 113-116
usedPagesOf(r) ==
    IF AddU(usedPagesRaw(r), r.FreeCount) > totalPagesOf(r)
    THEN SubU(totalPagesOf(r), r.FreeCount)
    ELSE usedPagesRaw(r)

\* the clamp to totalPages is missing
availablePagesOfMutNoClamp(r) ==
    AddU(AddU(r.FreeCount, r.InactiveCount), r.PurgeableCount)

\* availablePages after the clamp of lines 119-126
availablePagesOf(r) ==
    LET a == AddU(AddU(r.FreeCount, r.InactiveCount), r.PurgeableCount)
    IN  IF a > totalPagesOf(r) THEN totalPagesOf(r) ELSE a

\* collectMemoryStats: <<MemoryStats, error>>
collectMemoryStats(r) ==
    IF r.err = "memsize"
    THEN <<MemoryStatsZero, "failed to get physical memory: sysctl">>
    ELSE IF r.err = "vmstat"
    THEN <<MemoryStatsZero, "failed to get VM statistics: host_statistics64">>
    ELSE LET used == MulU(usedPagesOf(r), r.pageSize)
         IN  <<[Total |-> r.physmem,
                Used |-> used,
                Available |-> MulU(availablePagesOf(r), r.pageSize),
                Usage |-> PercentOf(used, r.physmem),
                Swap |-> collectSwapStats],
               ErrNil>>

\* collectSystemStats: <<SystemStats, error>>
collectSystemStats(r) ==
    LET mem == collectMemoryStats(r)
    IN  IF mem[2] # ErrNil
        THEN <<[SystemStatsZero EXCEPT !.Memory = mem[1]],
               "failed to collect memory stats: " \o mem[2]>>
        ELSE <<[CPU |-> CPUStatsZero, Memory |-> mem[1], GPU |-> GPUStatsZero,
                Uptime |-> 0],
               ErrNil>>

-----------------------------------------------------------------------------
(* Inputs *)

Raw(phys, ps, fr, ac, ina, wi, pu, sp, co, ex, e) ==
    [physmem |-> phys, pageSize |-> ps, FreeCount |-> fr, ActiveCount |-> ac,
     InactiveCount |-> ina, WireCount |-> wi, PurgeableCount |-> pu,
     SpeculativeCount |-> sp, CompressorPageCount |-> co,
     ExternalPageCount |-> ex, err |-> e]

Counts == 0..MaxCount

\* the sysctl and host_statistics64 readings one collectMemoryStats call can see
MemRaws ==
    { Raw(k * DefaultPageSize, ps, fr, ac, ina, wi, pu, sp, co, ex, ErrNil) :
        k \in 0..MaxPhysPages, ps \in PageSizes, fr \in Counts, ac \in Counts,
        ina \in Counts, wi \in Counts, pu \in Counts, sp \in Counts,
        co \in Counts, ex \in Counts }

\* the readings a session sees: two healthy hosts and a failing host call
RawHealthy == Raw(4096 * 1000, 4096, 200, 100, 50, 30, 20, 5, 10, 5, ErrNil)
RawBusy == Raw(4096 * 1000, 4096, 10, 600, 300, 200, 0, 0, 50, 0, ErrNil)
RawFailing == Raw(0, 4096, 0, 0, 0, 0, 0, 0, 0, 0, "vmstat")
SessionRaws == {RawHealthy, RawBusy, RawFailing}

\* the readings of one normalisation: the small ones and two of real size
NormRaws == MemRaws \cup {RawHealthy, RawBusy}

WindowSizes == {<<80, 24>>, <<120, 40>>}

QuitKeys == {"ctrl+c", "q"}
ViewKeys == {"1", "2", "3", "4"}
FasterKeys == {"+", "="}
SlowerKeys == {"-", "_"}
MappedKeys == QuitKeys \cup ViewKeys \cup FasterKeys \cup SlowerKeys
OtherKeys == {"x", "5"}
Keys == MappedKeys \cup OtherKeys

-----------------------------------------------------------------------------
(* The bubbletea model *)

OverviewMode == 0
CPUDetailMode == 1
MemoryDetailMode == 2
GPUDetailMode == 3

Millisecond == 1
Second == 1000 * Millisecond
MinRefresh == 100 * Millisecond
MaxRefresh == 5 * Second
RefreshStep == 100 * Millisecond

WindowSizeMsg(w, h) == [type |-> "WindowSizeMsg", Width |-> w, Height |-> h]
TickMsg(t) == [type |-> "TickMsg", t |-> t]
KeyMsg(k) == [type |-> "KeyMsg", key |-> k]
QuitMsg == [type |-> "QuitMsg"]

CmdNil == [type |-> "nil"]
CmdTick(d) == [type |-> "Tick", d |-> d]
CmdQuit == [type |-> "Quit"]

\* the fallback literal of initialModel
DefaultStats ==
    [SystemStatsZero EXCEPT !.CPU.Cores = <<0, 0, 0, 0, 0, 0, 0, 0>>]

\* the start-up error is dropped
initialModelMutDropError(t, res) ==
    LET base == [stats |-> SystemStatsZero, viewMode |-> OverviewMode,
                 refreshRate |-> Second, lastUpdate |-> t, width |-> 80,
                 height |-> 24, quit |-> FALSE, lastError |-> ""]
    IN  IF res[2] = ErrNil
        THEN [base EXCEPT !.stats = res[1]]
        ELSE [base EXCEPT !.stats = DefaultStats]

\* initialModel at time t, res being what collectSystemStats returns
initialModel(t, res) ==
    LET base == [stats |-> SystemStatsZero, viewMode |-> OverviewMode,
                 refreshRate |-> Second, lastUpdate |-> t, width |-> 80,
                 height |-> 24, quit |-> FALSE, lastError |-> ""]
    IN  IF res[2] = ErrNil
        THEN [base EXCEPT !.stats = res[1]]
        ELSE [base EXCEPT
                !.lastError = "Failed to initialize system stats: " \o res[2],
                !.stats = DefaultStats]

\* model.Init
ModelInit(mdl) == CmdTick(mdl.refreshRate)

\* width and height are exchanged
UpdateWindowSizeMutSwapped(mdl, msg) ==
    [m |-> [mdl EXCEPT !.width = msg.Height, !.height = msg.Width],
     cmd |-> CmdNil]

\* a resize starts a timer of its own
UpdateWindowSizeMutRearm(mdl, msg) ==
    [m |-> [mdl EXCEPT !.width = msg.Width, !.height = msg.Height],
     cmd |-> CmdTick(mdl.refreshRate)]

UpdateWindowSize(mdl, msg) ==
    [m |-> [mdl EXCEPT !.width = msg.Width, !.height = msg.Height],
     cmd |-> CmdNil]

\* the snapshot is stored before the error is looked at
UpdateTickMutStoreOnError(mdl, msg, res) ==
    LET m1 == IF res[2] = ErrNil
              THEN [mdl EXCEPT !.stats = res[1], !.lastError = ""]
              ELSE [mdl EXCEPT
                      !.stats = res[1],
                      !.lastError = "Error collecting stats: " \o res[2]]
        m2 == [m1 EXCEPT !.lastUpdate = msg.t]
    IN  [m |-> m2, cmd |-> CmdTick(m2.refreshRate)]

\* the timer is re-armed with the start-up period
UpdateTickMutFixedPeriod(mdl, msg, res) ==
    LET m1 == IF res[2] = ErrNil
              THEN [mdl EXCEPT !.stats = res[1], !.lastError = ""]
              ELSE [mdl EXCEPT
                      !.lastError = "Error collecting stats: " \o res[2]]
        m2 == [m1 EXCEPT !.lastUpdate = msg.t]
    IN  [m |-> m2, cmd |-> CmdTick(Second)]

\* a failed collection ends the session
UpdateTickMutQuitOnError(mdl, msg, res) ==
    LET m1 == IF res[2] = ErrNil
              THEN [mdl EXCEPT !.stats = res[1], !.lastError = ""]
              ELSE [mdl EXCEPT
                      !.lastError = "Error collecting stats: " \o res[2]]
        m2 == [m1 EXCEPT !.lastUpdate = msg.t]
    IN  [m |-> m2,
         cmd |-> IF res[2] = ErrNil THEN CmdTick(m2.refreshRate) ELSE CmdQuit]

\* the error of an earlier Tick is not cleared
UpdateTickMutKeepError(mdl, msg, res) ==
    LET m1 == IF res[2] = ErrNil
              THEN [mdl EXCEPT !.stats = res[1]]
              ELSE [mdl EXCEPT
                      !.lastError = "Error collecting stats: " \o res[2]]
        m2 == [m1 EXCEPT !.lastUpdate = msg.t]
    IN  [m |-> m2, cmd |-> CmdTick(m2.refreshRate)]

\* after a failed collection no Tick is scheduled
UpdateTickMutStopOnError(mdl, msg, res) ==
    LET m1 == IF res[2] = ErrNil
              THEN [mdl EXCEPT !.stats = res[1], !.lastError = ""]
              ELSE [mdl EXCEPT
                      !.lastError = "Error collecting stats: " \o res[2]]
        m2 == [m1 EXCEPT !.lastUpdate = msg.t]
    IN  [m |-> m2,
         cmd |-> IF res[2] = ErrNil THEN CmdTick(m2.refreshRate) ELSE CmdNil]

UpdateTick(mdl, msg, res) ==
    LET m1 == IF res[2] = ErrNil
              THEN [mdl EXCEPT !.stats = res[1], !.lastError = ""]
              ELSE [mdl EXCEPT
                      !.lastError = "Error collecting stats: " \o res[2]]
        m2 == [m1 EXCEPT !.lastUpdate = msg.t]
    IN  [m |-> m2, cmd |-> CmdTick(m2.refreshRate)]

\* key "4" selects the mode of key "3"
KeyViewMutWrongMode(mdl, k) ==
    IF k = "1" THEN [mdl EXCEPT !.viewMode = OverviewMode]
    ELSE IF k = "2" THEN [mdl EXCEPT !.viewMode = CPUDetailMode]
    ELSE [mdl EXCEPT !.viewMode = MemoryDetailMode]

\* keys "1".."4"
KeyView(mdl, k) ==
    IF k = "1" THEN [mdl EXCEPT !.viewMode = OverviewMode]
    ELSE IF k = "2" THEN [mdl EXCEPT !.viewMode = CPUDetailMode]
    ELSE IF k = "3" THEN [mdl EXCEPT !.viewMode = MemoryDetailMode]
    ELSE [mdl EXCEPT !.viewMode = GPUDetailMode]

\* the floor is not tested
KeyFasterMutNoFloor(mdl) == [mdl EXCEPT !.refreshRate = @ - RefreshStep]

\* keys "+", "="
KeyFaster(mdl) ==
    IF mdl.refreshRate > MinRefresh
    THEN [mdl EXCEPT !.refreshRate = @ - RefreshStep]
    ELSE mdl

\* the ceiling is not tested
KeySlowerMutNoCeiling(mdl) == [mdl EXCEPT !.refreshRate = @ + RefreshStep]

\* keys "-", "_"
KeySlower(mdl) ==
    IF mdl.refreshRate < MaxRefresh
    THEN [mdl EXCEPT !.refreshRate = @ + RefreshStep]
    ELSE mdl

\* the switch has a default case going back to the overview
KeyOtherMutDefaultCase(mdl, k) == [mdl EXCEPT !.viewMode = OverviewMode]

\* a key no case of the switch names
KeyOther(mdl, k) == mdl

UpdateKey(mdl, msg) ==
    LET k == msg.key
    IN  IF k \in QuitKeys
        THEN [m |-> [mdl EXCEPT !.quit = TRUE], cmd |-> CmdQuit]
        ELSE [m |-> IF k \in ViewKeys THEN KeyView(mdl, k)
                    ELSE IF k \in FasterKeys THEN KeyFaster(mdl)
                    ELSE IF k \in SlowerKeys THEN KeySlower(mdl)
                    ELSE KeyOther(mdl, k),
              cmd |-> CmdNil]

\* model.Update; res is what collectSystemStats returns if it is called
Update(mdl, msg, res) ==
    IF msg.type = "WindowSizeMsg" THEN UpdateWindowSize(mdl, msg)
    ELSE IF msg.type = "TickMsg" THEN UpdateTick(mdl, msg, res)
    ELSE IF msg.type = "KeyMsg" THEN UpdateKey(mdl, msg)
    ELSE [m |-> mdl, cmd |-> CmdNil]

-----------------------------------------------------------------------------
(* main() in JSON mode *)

NotExited == -1

\* no JSON run: the flag is not set
JsonIdle ==
    [pc |-> "tui", collects |-> 0, stats |-> SystemStatsZero, stdout |-> <<>>,
     status |-> NotExited]

JsonStart ==
    [pc |-> "collect", collects |-> 0, stats |-> SystemStatsZero,
     stdout |-> <<>>, status |-> NotExited]

IsFinite(f) == f.class = "finite"

\* json.MarshalIndent(stats, "", "  "): <<text, error>>; encoding/json refuses
\* a float that is NaN or infinite
MarshalIndent(s) ==
    IF /\ IsFinite(s.CPU.Usage) /\ IsFinite(s.CPU.Temp)
       /\ IsFinite(s.Memory.Usage) /\ IsFinite(s.Memory.Swap.Usage)
       /\ IsFinite(s.GPU.Usage) /\ IsFinite(s.GPU.MemoryUsage)
       /\ IsFinite(s.GPU.Temp)
    THEN <<[indent |-> "  ", value |-> s], ErrNil>>
    ELSE <<[indent |-> "  ", value |-> SystemStatsZero],
           "json: unsupported value">>

-----------------------------------------------------------------------------
(* The interactive session: main() in TUI mode *)

NoResult == <<SystemStatsZero, ErrNil>>
\* same: Update returned the model value it was given
Taken(msg, res, same) == [msg |-> msg, res |-> res, same |-> same]

Init ==
    /\ now = 0
    /\ \E r \in SessionRaws :
         /\ m = initialModel(now, collectSystemStats(r))
         /\ lastMsg = Taken([type |-> "start"], collectSystemStats(r), TRUE)
         /\ collectErr = collectSystemStats(r)[2]
    /\ cmd = ModelInit(m)
    /\ armed = 1
    /\ quitPending = FALSE
    /\ running = TRUE
    /\ raw = RawHealthy
    /\ memStats = MemoryStatsZero
    /\ memDone = FALSE
    /\ jsonRun = JsonIdle

\* the event loop hands msg to Update and starts the command it returns;
\* fired is the number of timers that fired to produce msg
Dispatch(msg, res, fired) ==
    LET u == Update(m, msg, res)
    IN  /\ m' = u.m
        /\ cmd' = u.cmd
        /\ armed' = armed - fired + (IF u.cmd.type = "Tick" THEN 1 ELSE 0)
        /\ quitPending' = (quitPending \/ u.cmd.type = "Quit")
        /\ lastMsg' = Taken(msg, res, u.m = m)
        /\ collectErr' = IF msg.type = "TickMsg" THEN res[2] ELSE collectErr
        /\ UNCHANGED <<running, raw, memStats, memDone, jsonRun>>

HandleWindowSize ==
    /\ running
    /\ \E wh \in WindowSizes :
         Dispatch(WindowSizeMsg(wh[1], wh[2]), NoResult, 0)
    /\ UNCHANGED now

\* a timer fires; its TickMsg carries the time of firing
HandleTick ==
    /\ running
    /\ armed > 0
    /\ now < MaxClock
    /\ now' = now + 1
    /\ \E r \in SessionRaws :
         Dispatch(TickMsg(now'), collectSystemStats(r), 1)

HandleKey ==
    /\ running
    /\ \E k \in Keys : Dispatch(KeyMsg(k), NoResult, 0)
    /\ UNCHANGED now

\* the loop takes the QuitMsg of tea.Quit and p.Run() returns
HandleQuit ==
    /\ running
    /\ quitPending
    /\ running' = FALSE
    /\ quitPending' = FALSE
    /\ lastMsg' = Taken(QuitMsg, NoResult, TRUE)
    /\ UNCHANGED <<m, cmd, armed, now, raw, memStats, memDone, jsonRun,
                   collectErr>>

Next == HandleWindowSize \/ HandleTick \/ HandleKey \/ HandleQuit

Spec == Init /\ [][Next]_vars

-----------------------------------------------------------------------------
(* The session without a last Tick: the clock is kept modulo MaxClock.  An    *)
(* armed timer fires in the end and the collection of its Tick returns.      *)

HandleTickCyclic ==
    /\ running
    /\ armed > 0
    /\ now' = (now % MaxClock) + 1
    /\ \E r \in SessionRaws :
         Dispatch(TickMsg(now'), collectSystemStats(r), 1)

NextLive == HandleWindowSize \/ HandleTickCyclic \/ HandleKey \/ HandleQuit

SpecLive == Init /\ [][NextLive]_vars /\ WF_vars(HandleTickCyclic)

-----------------------------------------------------------------------------
(* One call of collectMemoryStats on arbitrary readings *)

InitMem ==
    /\ raw \in NormRaws
    /\ memStats = MemoryStatsZero
    /\ memDone = FALSE
    /\ now = 0
    /\ m = initialModel(0, collectSystemStats(RawHealthy))
    /\ lastMsg = Taken([type |-> "start"], NoResult, TRUE)
    /\ cmd = CmdNil
    /\ armed = 0
    /\ quitPending = FALSE
    /\ running = FALSE
    /\ jsonRun = JsonIdle
    /\ collectErr = ErrNil

Normalize ==
    /\ ~memDone
    /\ memStats' = collectMemoryStats(raw)[1]
    /\ memDone' = TRUE
    /\ UNCHANGED <<m, cmd, armed, quitPending, running, now, lastMsg, raw,
                   jsonRun, collectErr>>

NextMem == Normalize

SpecMem == InitMem /\ [][NextMem]_vars

-----------------------------------------------------------------------------
(* One run of main() with --json *)

JsonRaws == MemRaws \cup SessionRaws

InitJson ==
    /\ raw \in JsonRaws
    /\ jsonRun = JsonStart
    /\ collectErr = ErrNil
    /\ memStats = MemoryStatsZero
    /\ memDone = FALSE
    /\ now = 0
    /\ m = initialModel(0, NoResult)
    /\ lastMsg = Taken([type |-> "json"], NoResult, TRUE)
    /\ cmd = CmdNil
    /\ armed = 0
    /\ quitPending = FALSE
    /\ running = FALSE

JsonUnchanged ==
    UNCHANGED <<m, cmd, armed, quitPending, running, now, lastMsg, raw,
                memStats, memDone, collectErr>>

\* stats, err := collectSystemStats(); on error os.Exit(1)
JsonCollect ==
    /\ jsonRun.pc = "collect"
    /\ LET res == collectSystemStats(raw)
       IN  jsonRun' =
             IF res[2] # ErrNil
             THEN [jsonRun EXCEPT !.pc = "done", !.collects = @ + 1,
                                  !.status = 1]
             ELSE [jsonRun EXCEPT !.pc = "marshal", !.collects = @ + 1,
                                  !.stats = res[1]]
    /\ JsonUnchanged

\* jsonData, err := json.MarshalIndent(...); on error os.Exit(1); else print
JsonPrint ==
    /\ jsonRun.pc = "marshal"
    /\ LET enc == MarshalIndent(jsonRun.stats)
       IN  jsonRun' =
             IF enc[2] # ErrNil
             THEN [jsonRun EXCEPT !.pc = "done", !.status = 1]
             ELSE [jsonRun EXCEPT !.pc = "done",
                                  !.stdout = Append(@, enc[1]),
                                  !.status = 0]
    /\ JsonUnchanged

NextJson == JsonCollect \/ JsonPrint

SpecJson == InitJson /\ [][NextJson]_vars

-----------------------------------------------------------------------------
(* Properties of the interactive session (Spec) *)

IsKeyStep(keys) ==
    /\ lastMsg'.msg.type = "KeyMsg"
    /\ lastMsg'.msg.key \in keys

IsTickStep == now' = now + 1

OtherFields(mdl) ==
    <<mdl.stats, mdl.viewMode, mdl.refreshRate, mdl.lastUpdate, mdl.lastError,
      mdl.width, mdl.height>>

\* C1: once quit is true, no step of the session changes stats, viewMode,
\* refreshRate, lastUpdate, lastError, width or height.
QuitIsTerminal == [][m.quit => OtherFields(m') = OtherFields(m)]_vars

AtBoundary(mdl, k) ==
    \/ k \in FasterKeys /\ mdl.refreshRate = MinRefresh
    \/ k \in SlowerKeys /\ mdl.refreshRate = MaxRefresh

\* C2: the refresh interval is always within [100ms, 5000ms], and a "+"/"="
\* at the floor or a "-"/"_" at the ceiling changes nothing and returns no
\* command (there is no error to report).
RefreshRateWithinBounds ==
    /\ [](m.refreshRate \in MinRefresh..MaxRefresh)
    /\ [][(IsKeyStep(FasterKeys \cup SlowerKeys)
             /\ AtBoundary(m, lastMsg'.msg.key))
          => (m' = m /\ cmd' = CmdNil
                /\ UNCHANGED <<armed, quitPending, running>>)]_vars

\* a "+" was handled at the floor and a "-" can still be handled
RefreshAtFloorNoOp ==
    /\ lastMsg.msg = KeyMsg("+")
    /\ lastMsg.same
    /\ m.refreshRate = MinRefresh
    /\ running

\* C3: a Tick whose collection fails keeps stats and sets a non-empty
\* lastError; a Tick whose collection succeeds stores the new snapshot and
\* empties lastError.
TickKeepsOrReplacesStats ==
    [][IsTickStep =>
         IF lastMsg'.res[2] # ErrNil
         THEN m'.stats = m.stats /\ m'.lastError # ""
         ELSE m'.stats = lastMsg'.res[1] /\ m'.lastError = ""]_vars

\* a failed Tick after a successful collection: the old snapshot is shown
\* together with the error
FailedTickKeptSnapshot ==
    /\ lastMsg.msg.type = "TickMsg"
    /\ lastMsg.res[2] # ErrNil
    /\ m.stats = collectSystemStats(RawBusy)[1]
    /\ m.lastError # ""

\* C8: every handled Tick, failed or not, records the Tick's time in
\* lastUpdate and returns one Tick command whose delay is the refresh interval
\* of the model at that moment; one timer is consumed and one armed.
TickRearmsWithCurrentInterval ==
    [][IsTickStep =>
         /\ m'.lastUpdate = lastMsg'.msg.t
         /\ cmd' = CmdTick(m.refreshRate)
         /\ m'.refreshRate = m.refreshRate
         /\ armed' = armed]_vars

\* a failed Tick handled after key presses changed the interval
FailedTickRearmedChangedInterval ==
    /\ lastMsg.msg.type = "TickMsg"
    /\ lastMsg.res[2] # ErrNil
    /\ m.refreshRate = Second + 2 * RefreshStep
    /\ cmd = CmdTick(m.refreshRate)
    /\ m.lastUpdate = lastMsg.msg.t
    /\ armed = 1

ModeOfKey(k) ==
    IF k = "1" THEN OverviewMode
    ELSE IF k = "2" THEN CPUDetailMode
    ELSE IF k = "3" THEN MemoryDetailMode
    ELSE GPUDetailMode

\* C9: a key "1".."4" sets viewMode to Overview, CPUDetail, MemoryDetail,
\* GPUDetail and changes nothing else; the same key once more changes nothing.
ViewKeySetsModeOnly ==
    [][IsKeyStep(ViewKeys) =>
         LET k == lastMsg'.msg.key
         IN  /\ m' = [m EXCEPT !.viewMode = ModeOfKey(k)]
             /\ cmd' = CmdNil
             /\ UNCHANGED <<armed, quitPending, running, now>>
             /\ Update(m', KeyMsg(k), NoResult) = [m |-> m', cmd |-> CmdNil]]_vars

\* key "4" pressed while the GPU view is already selected
ViewKeyPressedTwice ==
    /\ lastMsg.msg = KeyMsg("4")
    /\ lastMsg.same
    /\ m.viewMode = GPUDetailMode

\* C10: a key outside q, ctrl+c, 1-4, +, =, -, _ changes no field and returns
\* no command.
OtherKeyIsNoOp ==
    [][(lastMsg'.msg.type = "KeyMsg" /\ lastMsg'.msg.key \notin MappedKeys)
       => (m' = m /\ cmd' = CmdNil
             /\ UNCHANGED <<armed, quitPending, running, now>>)]_vars

\* an unmapped key handled in a state that differs from the initial one
OtherKeyHandled ==
    /\ lastMsg.msg = KeyMsg("x")
    /\ cmd = CmdNil
    /\ m.viewMode = CPUDetailMode
    /\ m.refreshRate # Second

-----------------------------------------------------------------------------
(* Properties of collectMemoryStats (SpecMem), in unbounded integers *)

SignedUsedPages(r) ==
    r.ActiveCount + r.InactiveCount + r.WireCount + r.SpeculativeCount
        + r.CompressorPageCount - r.PurgeableCount - r.ExternalPageCount

\* C4: with freePages <= totalPages, Used <= Total and Available <= Total.
UsedAndAvailableWithinTotal ==
    (memDone /\ raw.FreeCount <= totalPagesOf(raw))
        => (memStats.Used <= memStats.Total
              /\ memStats.Available <= memStats.Total)

\* C5: with freePages > totalPages, usedPages is 0 and Used is 0 bytes.
UsedClampedToZero ==
    (memDone /\ raw.FreeCount > totalPagesOf(raw))
        => (usedPagesOf(raw) = 0 /\ memStats.Used = 0)

\* C6: usedPages is totalPages - freePages if the unclamped value plus
\* freePages exceeds totalPages, and the unclamped value otherwise.
UsedPagesClampExact ==
    memDone =>
        LET s == SignedUsedPages(raw)
        IN  /\ usedPagesOf(raw) =
                 IF s + raw.FreeCount > totalPagesOf(raw)
                 THEN totalPagesOf(raw) - raw.FreeCount
                 ELSE s
            /\ memStats.Used = usedPagesOf(raw) * raw.pageSize

\* C7: with a total physical memory of 0 the call returns and usage is 0.
ZeroTotalUsageZero ==
    (memDone /\ raw.physmem = 0) => memStats.Usage = Finite(0)

-----------------------------------------------------------------------------
(* Further properties of the interactive session (Spec) *)

Started == lastMsg.msg.type = "start"

AllZero(f) == f = Finite(0)

AllZeroStats(s) ==
    /\ AllZero(s.CPU.Usage) /\ AllZero(s.CPU.Temp)
    /\ \A i \in 1..Len(s.CPU.Cores) : s.CPU.Cores[i] = 0
    /\ \A i \in 1..Len(s.CPU.LoadAvg) : s.CPU.LoadAvg[i] = 0
    /\ s.Memory.Total = 0 /\ s.Memory.Used = 0 /\ s.Memory.Available = 0
    /\ AllZero(s.Memory.Usage)
    /\ s.Memory.Swap.Total = 0 /\ s.Memory.Swap.Used = 0
    /\ AllZero(s.Memory.Swap.Usage)
    /\ AllZero(s.GPU.Usage) /\ AllZero(s.GPU.MemoryUsage)
    /\ s.GPU.MemoryUsed = 0 /\ s.GPU.MemoryTotal = 0 /\ AllZero(s.GPU.Temp)
    /\ s.Uptime = 0

\* C11: the session starts with refresh interval 1s, view Overview and quit
\* false; after a successful first collection lastError is empty and stats is
\* the snapshot, after a failed one the session still starts, with all-zero
\* stats and a non-empty lastError.
InitialStateAsSpecified ==
    Started =>
        /\ m.refreshRate = Second
        /\ m.viewMode = OverviewMode
        /\ m.quit = FALSE
        /\ running /\ armed = 1 /\ cmd = CmdTick(Second)
        /\ IF lastMsg.res[2] = ErrNil
           THEN m.lastError = "" /\ m.stats = lastMsg.res[1]
           ELSE m.lastError # "" /\ AllZeroStats(m.stats)

\* the session has started although the first collection failed
StartedAfterFailedCollection ==
    /\ Started
    /\ lastMsg.res[2] # ErrNil
    /\ running

\* C12: quit becomes true, and tea.Quit is returned, only by a KeyMsg "q" or
\* "ctrl+c", which always does both; the loop ends only on that command.
QuitOnlyByQuitKey ==
    [][/\ IsKeyStep(QuitKeys) => (m'.quit /\ cmd' = CmdQuit /\ quitPending')
       /\ ((m'.quit /\ ~m.quit) \/ (quitPending' /\ ~quitPending)
             \/ (cmd' = CmdQuit /\ cmd # CmdQuit))
            => IsKeyStep(QuitKeys)
       /\ (running /\ ~running') => (quitPending /\ m.quit)]_vars

\* the quit key was handled after a failed Tick, a resize and other keys
QuitKeyHandledLate ==
    /\ lastMsg.msg = KeyMsg("ctrl+c")
    /\ m.quit /\ cmd = CmdQuit /\ quitPending
    /\ m.lastError # "" /\ now > 0
    /\ m.width = 120

Plus(mdl) == Update(mdl, KeyMsg("+"), NoResult).m
Plus5(mdl) == Plus(Plus(Plus(Plus(Plus(mdl)))))
Plus20(mdl) == Plus5(Plus5(Plus5(Plus5(mdl))))

\* C15: "+"/"=" lowers the interval by exactly 100ms above 100ms and leaves
\* it at 100ms; "-"/"_" raises it by exactly 100ms below 5000ms and leaves it
\* at 5000ms; nothing else changes; 20 times "+" from 1000ms ends at 100ms.
RefreshKeysStepExactly ==
    /\ [](m.refreshRate = 1000 * Millisecond
            => Plus20(m) = [m EXCEPT !.refreshRate = 100 * Millisecond])
    /\ [][IsKeyStep(FasterKeys) =>
            /\ m' = [m EXCEPT !.refreshRate =
                       IF m.refreshRate > 100 * Millisecond
                       THEN m.refreshRate - 100 * Millisecond
                       ELSE m.refreshRate]
            /\ cmd' = CmdNil]_vars
    /\ [][IsKeyStep(SlowerKeys) =>
            /\ m' = [m EXCEPT !.refreshRate =
                       IF m.refreshRate < 5000 * Millisecond
                       THEN m.refreshRate + 100 * Millisecond
                       ELSE m.refreshRate]
            /\ cmd' = CmdNil]_vars

\* a "_" has raised the interval to the ceiling
RaisedToCeiling ==
    /\ lastMsg.msg = KeyMsg("_")
    /\ ~lastMsg.same
    /\ m.refreshRate = 5000 * Millisecond

\* C16: a Resize(w, h) stores w and h, changes no other field and returns no
\* command.
ResizeSetsDimensionsOnly ==
    [][lastMsg'.msg.type = "WindowSizeMsg" =>
         /\ m' = [m EXCEPT !.width = lastMsg'.msg.Width,
                           !.height = lastMsg'.msg.Height]
         /\ cmd' = CmdNil
         /\ UNCHANGED <<armed, quitPending, running, now>>]_vars

\* a resize to 120x40 has changed the stored size
ResizedTo120x40 ==
    /\ lastMsg.msg = WindowSizeMsg(120, 40)
    /\ ~lastMsg.same
    /\ m.width = 120 /\ m.height = 40

\* C18: at most one Tick is in flight: the start arms one, a handled Tick
\* consumes one and arms one, no other step arms or consumes one.
AtMostOneTickArmed ==
    /\ [](armed <= 1 /\ (Started => armed = 1))
    /\ [][IF IsTickStep THEN armed >= 1 /\ armed' = armed
          ELSE armed' = armed]_vars

\* the second Tick handled after the interval was changed and the window
\* resized
SecondTickAfterChanges ==
    /\ lastMsg.msg = TickMsg(2)
    /\ armed = 1
    /\ m.refreshRate = Second - 3 * RefreshStep
    /\ m.width = 120

\* C19: lastError is empty exactly if the latest collection (the first one or
\* that of the latest Tick) succeeded; a step that is no Tick leaves stats,
\* lastError and lastUpdate alone.
LastErrorTracksCollection ==
    /\ [](m.lastError = "" <=> collectErr = ErrNil)
    /\ [][~IsTickStep =>
            /\ m'.stats = m.stats
            /\ m'.lastError = m.lastError
            /\ m'.lastUpdate = m.lastUpdate]_vars

\* the start-up error is still shown after key presses and a resize
StartupErrorStillShown ==
    /\ now = 0
    /\ m.lastError # ""
    /\ collectErr # ErrNil
    /\ lastMsg.msg.type = "WindowSizeMsg"
    /\ m.viewMode = GPUDetailMode
    /\ m.refreshRate # Second

\* C20: with a timer that fires in the end and collections that return,
\* either a quit key is handled at some time or Ticks are handled again and
\* again for ever.
TicksNeverStop == (<>m.quit) \/ []<><<HandleTickCyclic>>_vars

\* a Tick handled although its collection failed, after a view change, a
\* resize and interval adjustments down to the floor
TickHandledAfterEverything ==
    /\ lastMsg.msg.type = "TickMsg"
    /\ lastMsg.res[2] # ErrNil
    /\ ~m.quit
    /\ m.viewMode = MemoryDetailMode
    /\ m.width = 120
    /\ m.refreshRate = MinRefresh
    /\ armed = 1

-----------------------------------------------------------------------------
(* Properties of the JSON mode (SpecJson) *)

\* C13: a JSON run makes exactly one collection and starts neither the state
\* machine nor a timer; if the collection succeeded it prints the snapshot and
\* exits with status 0, otherwise it prints no snapshot and exits non-zero.
JsonRunAsSpecified ==
    jsonRun.pc = "done" =>
        /\ jsonRun.collects = 1
        /\ ~running /\ armed = 0 /\ cmd = CmdNil
        /\ IF collectSystemStats(raw)[2] = ErrNil
           THEN /\ Len(jsonRun.stdout) = 1
                /\ jsonRun.stdout[1].value = collectSystemStats(raw)[1]
                /\ jsonRun.status = 0
           ELSE /\ jsonRun.stdout = <<>>
                /\ jsonRun.status \notin {0, NotExited}

-----------------------------------------------------------------------------
(* Further properties of collectMemoryStats (SpecMem) *)

\* C14: active=100, inactive=50, wired=30, speculative=5, compressed=10,
\* purgeable=20, external=5, free=200, pageSize=4096, physmem=4096*1000 gives
\* usedPages 170 with no clamp, Used = 170*4096, Available = 270*4096 and a
\* usage of 17 percent.
ExampleNormalized ==
    (memDone
       /\ raw = Raw(4096 * 1000, 4096, 200, 100, 50, 30, 20, 5, 10, 5, ErrNil))
    => /\ usedPagesRaw(raw) = 170
       /\ usedPagesOf(raw) = 170
       /\ availablePagesOf(raw) = 270
       /\ memStats.Total = 4096 * 1000
       /\ memStats.Used = 170 * 4096
       /\ memStats.Available = 270 * 4096
       /\ memStats.Usage = Finite(17)

\* the example has been normalised
ExampleDone ==
    /\ memDone
    /\ raw.ActiveCount = 100 /\ raw.FreeCount = 200
    /\ raw.physmem = 4096 * 1000
    /\ memStats.Used > 0

\* C17: availablePages is freePages + inactive + purgeable if that is at most
\* totalPages and totalPages otherwise, whether or not usedPages was clamped;
\* Available is that many pages in bytes.
AvailablePagesAsSpecified ==
    (memDone /\ raw.err = ErrNil) =>
        LET a == raw.FreeCount + raw.InactiveCount + raw.PurgeableCount
            t == raw.physmem \div raw.pageSize
            want == IF a <= t THEN a ELSE t
        IN  /\ availablePagesOf(raw) = want
            /\ memStats.Available = want * raw.pageSize

\* usedPages was clamped and availablePages was not
UsedClampedAvailableNot ==
    /\ memDone
    /\ AddU(usedPagesRaw(raw), raw.FreeCount) > totalPagesOf(raw)
    /\ raw.FreeCount + raw.InactiveCount + raw.PurgeableCount
         <= totalPagesOf(raw)
    /\ memStats.Available > 0

====
